---- MODULE Spec2Model ----
(***************************************************************************)
(* Model of src/extract.ts: the request to the prediction API, the         *)
(* data-URL stripper, and the decode-and-persist pass over the output      *)
(* bundle.                                                                 *)
(*                                                                         *)
(* Strings are sequences of tokens.  A token is either one character       *)
(* (",", ";", "=", "!", " ") or an indivisible run of characters           *)
(* ("data:image/png", "base64", and the 4-character base64 groups "AAAA",  *)
(* "e30K", "W10K").  The marker ';base64' is the two tokens ";" "base64".  *)
(***************************************************************************)
EXTENDS Integers, Sequences, FiniteSets, TLC

VARIABLES
    pc,           \* position in main / processAnalysisResults
    transport,    \* what the HTTP exchange does (environment)
    hasOutput,    \* whether the parsed body carries "output" (environment)
    bundle,       \* apiResponse.output: field name -> value (environment)
    faults,       \* the filesystem operations that fail in this run (environment)
    analysisData, \* main's analysisData: "unset", "null" or "data"
    dirExists,    \* the output directory exists
    files,        \* path -> content of the file there
    log,          \* the filesystem calls made so far, in order
    keyIdx,       \* index into audioFileKeys of the next loop iteration
    exitCode,     \* -1 while running, then the process exit code
    dirExisted,   \* the output directory existed before the run (environment)
    order,        \* SpecAnyOrder: the order in which the fields are processed
    outcomes,     \* SpecAnyOrder: how each failing write ends (environment)
    sIn,          \* SpecStrip: the argument of stripDataUrlPrefixAndGetBase64
    sOut          \* SpecStrip: its return value

vars == <<pc, transport, hasOutput, bundle, faults, analysisData, dirExists,
          files, log, keyIdx, exitCode, dirExisted, order, outcomes, sIn, sOut>>

-----------------------------------------------------------------------------
(* Bounds *)

\* longest argument of strip enumerated by SpecStrip
MaxStrLen == 5

\* a run departs from the nominal one (request succeeds, every field a valid
\* data URL, no filesystem failure) in at most this many places
MaxAnomalies == 2

-----------------------------------------------------------------------------
(* Values *)

\* JavaScript undefined, null, a truthy non-string (e.g. a number), and the
\* "not yet called" mark of SpecStrip
Undefined == <<"<undefined>">>
Null == <<"<null>">>
NonString == <<"<non-string>">>
NotCalled == <<"<not-called>">>

\* file contents that are not data
Absent == <<"<absent>">>
Partial == <<"<partial>">>

RECURSIVE SeqsUpTo(_, _)
SeqsUpTo(S, n) ==
    IF n = 0 THEN {<<>>}
    ELSE LET shorter == SeqsUpTo(S, n - 1)
         IN  shorter \cup {Append(s, t) : s \in {x \in shorter : Len(x) = n - 1}, t \in S}

StripAlphabet == {"data:image/png", ";", "base64", ",", "AAAA"}

IsString(v) == v \notin {Undefined, Null, NonString, NotCalled}

-----------------------------------------------------------------------------
(* String primitives of the JavaScript runtime *)

\* index of the first occurrence of token c in s at or after position i, 0 if none
RECURSIVE IndexFrom(_, _, _)
IndexFrom(s, c, i) ==
    IF i > Len(s) THEN 0
    ELSE IF s[i] = c THEN i
    ELSE IndexFrom(s, c, i + 1)

\* String.prototype.split(c): the pieces between the occurrences of c
RECURSIVE Split(_, _)
Split(s, c) ==
    LET i == IndexFrom(s, c, 1)
    IN  IF i = 0 THEN <<s>>
        ELSE <<SubSeq(s, 1, i - 1)>> \o Split(SubSeq(s, i + 1, Len(s)), c)

\* Array.prototype.join(c)
RECURSIVE Join(_, _)
Join(parts, c) ==
    IF Len(parts) = 0 THEN <<>>
    ELSE IF Len(parts) = 1 THEN parts[1]
    ELSE parts[1] \o <<c>> \o Join(Tail(parts), c)

\* String.prototype.includes(needle)
Includes(s, needle) ==
    \E i \in 1..(Len(s) - Len(needle) + 1) :
        SubSeq(s, i, i + Len(needle) - 1) = needle

\* String.prototype.trim()
RECURSIVE TrimLeft(_)
TrimLeft(s) ==
    IF Len(s) > 0 /\ s[1] = " " THEN TrimLeft(Tail(s)) ELSE s

RECURSIVE TrimRight(_)
TrimRight(s) ==
    IF Len(s) > 0 /\ s[Len(s)] = " " THEN TrimRight(SubSeq(s, 1, Len(s) - 1)) ELSE s

Trim(s) == TrimRight(TrimLeft(s))

\* JavaScript truthiness of a field value: undefined and "" are falsy
Truthy(v) == v # Undefined /\ v # <<>>

Base64Marker == <<";", "base64">>

-----------------------------------------------------------------------------
(* stripDataUrlPrefixAndGetBase64 *)

\* mutant: returns parts[1] of the split instead of joining parts.slice(1)
stripSecondPartOnly(dataUrlString) ==
    IF ~Truthy(dataUrlString) \/ ~IsString(dataUrlString) THEN Null
    ELSE LET parts == Split(dataUrlString, ",")
         IN  IF Len(parts) > 1 /\ Includes(parts[1], Base64Marker)
             THEN parts[2]
             ELSE dataUrlString

stripDataUrlPrefixAndGetBase64(dataUrlString) ==
    IF ~Truthy(dataUrlString) \/ ~IsString(dataUrlString) THEN Null
    ELSE LET parts == Split(dataUrlString, ",")
         IN  IF Len(parts) > 1 /\ Includes(parts[1], Base64Marker)
             THEN Join(Tail(parts), ",")
             ELSE dataUrlString

-----------------------------------------------------------------------------
(* Buffer.from(s, 'base64'), toString('utf-8'), JSON.parse, JSON.stringify *)

Base64Groups == {"AAAA", "e30K", "W10K"}

\* the number of characters of a token that belong to the base64 alphabet
LegalChars(tok) ==
    IF tok \in Base64Groups THEN 4
    ELSE IF tok = "data:image/png" THEN 13
    ELSE IF tok = "base64" THEN 6
    ELSE 0

\* the bytes a 4-character group decodes to
GroupBytes(tok) ==
    IF tok = "e30K" THEN "{}\n"
    ELSE IF tok = "W10K" THEN "[]\n"
    ELSE "\\0\\0\\0"

\* Buffer.from(s, 'base64'): characters outside the alphabet are skipped,
\* "=" ends the input, nothing throws.  off is the number of legal
\* characters consumed so far modulo 4; a group read at another offset than
\* 0 decodes to other bytes than its own.
RECURSIVE Decode(_, _)
Decode(s, off) ==
    IF Len(s) = 0 \/ s[1] = "=" THEN <<>>
    ELSE LET n == LegalChars(s[1])
             rest == Decode(Tail(s), (off + n) % 4)
         IN  IF n = 0 THEN rest
             ELSE IF s[1] \in Base64Groups /\ off = 0 THEN <<GroupBytes(s[1])>> \o rest
             ELSE <<"<junk>">> \o rest

BufferFromBase64(s) == Decode(s, 0)

\* JSON.parse of a text: the value, or "SyntaxError" when it throws
JSONParse(text) ==
    IF text \in {<<"{}\n">>, <<"{}">>} THEN "EmptyObject"
    ELSE IF text \in {<<"[]\n">>, <<"[]">>} THEN "EmptyArray"
    ELSE "SyntaxError"

\* JSON.stringify(value, null, 2)
JSONStringify(value) ==
    IF value = "EmptyObject" THEN <<"{}">> ELSE <<"[]">>

-----------------------------------------------------------------------------
(* The field catalog and the destination paths *)

audioFileKeys ==
    <<"demucs_bass", "demucs_drums", "demucs_guitar", "demucs_other",
      "demucs_piano", "demucs_vocals", "mdx_instrumental", "mdx_other",
      "mdx_vocals", "sonification">>

AudioKeys == {audioFileKeys[i] : i \in 1..Len(audioFileKeys)}

Fields == {"analyzer_result", "visualization"} \cup AudioKeys

BinaryFields == Fields \ {"analyzer_result"}

\* path.join(outputDir, fileName) for each field
FilePath(key) ==
    IF key = "analyzer_result" THEN "analysis.json"
    ELSE IF key = "visualization" THEN "visualization.png"
    ELSE IF key = "sonification" THEN key \o ".mp3"
    ELSE key \o ".wav"

errorFilePath == "_error_analyzer_result_content.txt"

Paths == {FilePath(f) : f \in Fields} \cup {errorFilePath}

-----------------------------------------------------------------------------
(* fs/promises.  A filesystem state is [files, log, ok]: the call          *)
(* sequence of one handler threads it from call to call.                   *)

\* how a write to path ends: "ok", or it rejects leaving nothing ("clean")
\* or a partially written file ("partial") behind
WriteOutcomes(path) ==
    IF ~dirExists THEN {"clean"}
    ELSE IF <<"write", path>> \in faults THEN {"clean", "partial"}
    ELSE {"ok"}

\* fs.writeFile(path, data) ending with outcome how
fsWriteFile(st, path, data, how) ==
    [files |-> IF how = "ok" THEN [st.files EXCEPT ![path] = data]
               ELSE IF how = "partial" THEN [st.files EXCEPT ![path] = Partial]
               ELSE st.files,
     log   |-> Append(st.log, [op |-> "writeFile", path |-> path, ok |-> (how = "ok")]),
     ok    |-> (how = "ok")]

\* fs.unlink(path): rejects when nothing is there or the call fails
fsUnlink(st, path) ==
    LET ok == st.files[path] # Absent /\ <<"unlink", path>> \notin faults
    IN  [files |-> IF ok THEN [st.files EXCEPT ![path] = Absent] ELSE st.files,
         log   |-> Append(st.log, [op |-> "unlink", path |-> path, ok |-> ok]),
         ok    |-> ok]

-----------------------------------------------------------------------------
(* decodeAndSave *)

\* mutant: without the check for empty data after stripping
decodeAndSaveNoEmptyCheck(st, dataUrlString, filePath, how) ==
    LET base64Data == stripDataUrlPrefixAndGetBase64(dataUrlString)
    IN  IF base64Data = Null
        THEN st
        ELSE LET buffer == BufferFromBase64(base64Data)
                 written == fsWriteFile(st, filePath, buffer, how)
             IN  IF written.ok THEN written
                 ELSE fsUnlink(written, filePath)

\* mutant: without the unlink in the catch block
decodeAndSaveNoUnlink(st, dataUrlString, filePath, how) ==
    LET base64Data == stripDataUrlPrefixAndGetBase64(dataUrlString)
    IN  IF base64Data = Null \/ base64Data = <<>> \/ Trim(base64Data) = <<>>
        THEN st
        ELSE fsWriteFile(st, filePath, BufferFromBase64(base64Data), how)

\* the filesystem state after decodeAndSave(dataUrlString, filePath, _),
\* its write ending with outcome how; it never rejects
decodeAndSave(st, dataUrlString, filePath, how) ==
    LET base64Data == stripDataUrlPrefixAndGetBase64(dataUrlString)
    IN  IF base64Data = Null \/ base64Data = <<>> \/ Trim(base64Data) = <<>>
        THEN st
        ELSE LET buffer == BufferFromBase64(base64Data)
                 written == fsWriteFile(st, filePath, buffer, how)
             IN  IF written.ok THEN written
                 ELSE fsUnlink(written, filePath)

-----------------------------------------------------------------------------
(* processAnalysisResults, the analyzer_result branch *)

\* how the second write of the diagnostic file ends, when the first failed
RetryOutcomes(path) ==
    IF ~dirExists THEN {"clean"}
    ELSE IF <<"write", path>> \in faults THEN {"ok", "clean", "partial"}
    ELSE {"ok"}

\* the catch block: the diagnostic file, written with the decoded text and,
\* when that write rejects, with the undecoded text; a rejection of the
\* second write leaves the function (threw)
saveErrorFile(st, base64JsonData, how1, how2) ==
    LET decodedForErrorFile == BufferFromBase64(base64JsonData)
        first == fsWriteFile(st, errorFilePath,
                     <<"Attempted to decode this as JSON (from base64):\n\n">>
                         \o decodedForErrorFile, how1)
        second == fsWriteFile(first, errorFilePath,
                     <<"Could not even base64 decode this for the error file. Original base64 (after prefix strip):\n\n">>
                         \o base64JsonData, how2)
    IN  IF first.ok THEN [files |-> first.files, log |-> first.log, threw |-> FALSE]
        ELSE [files |-> second.files, log |-> second.log, threw |-> ~second.ok]

\* mutant: JSON.stringify applied to the decoded text, not to the parsed value
saveAnalyzerResultStringifiesText(st, value, how, how1, how2) ==
    LET unchanged == [files |-> st.files, log |-> st.log, threw |-> FALSE]
        base64JsonData == stripDataUrlPrefixAndGetBase64(value)
    IN  IF ~Truthy(value) THEN unchanged
        ELSE IF base64JsonData = Null \/ base64JsonData = <<>> THEN unchanged
        ELSE LET decodedJsonString == BufferFromBase64(base64JsonData)
                 parsed == JSONParse(decodedJsonString)
                 written == fsWriteFile(st, FilePath("analyzer_result"),
                                        <<"\"">> \o decodedJsonString \o <<"\"">>, how)
             IN  IF parsed = "SyntaxError"
                 THEN saveErrorFile(st, base64JsonData, how1, how2)
                 ELSE IF written.ok
                 THEN [files |-> written.files, log |-> written.log, threw |-> FALSE]
                 ELSE saveErrorFile(written, base64JsonData, how1, how2)

\* the whole branch; how, how1, how2 are the outcomes of the writes of
\* analysis.json and of the diagnostic file
saveAnalyzerResult(st, value, how, how1, how2) ==
    LET unchanged == [files |-> st.files, log |-> st.log, threw |-> FALSE]
        base64JsonData == stripDataUrlPrefixAndGetBase64(value)
    IN  IF ~Truthy(value) THEN unchanged
        ELSE IF base64JsonData = Null \/ base64JsonData = <<>> THEN unchanged
        ELSE LET decodedJsonString == BufferFromBase64(base64JsonData)
                 parsed == JSONParse(decodedJsonString)
                 written == fsWriteFile(st, FilePath("analyzer_result"),
                                        JSONStringify(parsed), how)
             IN  IF parsed = "SyntaxError"
                 THEN saveErrorFile(st, base64JsonData, how1, how2)
                 ELSE IF written.ok
                 THEN [files |-> written.files, log |-> written.log, threw |-> FALSE]
                 ELSE saveErrorFile(written, base64JsonData, how1, how2)

\* a binary field of the bundle: the guard on the value, then decodeAndSave
saveBinaryField(st, key, how) ==
    IF Truthy(bundle[key])
    THEN decodeAndSave(st, bundle[key], FilePath(key), how)
    ELSE st

-----------------------------------------------------------------------------
(* The environment of one run *)

DataUrl(payload) == <<"data:image/png", ";", "base64", ",">> \o payload

\* the value of a field in the nominal run: a valid data URL
Nominal(f) ==
    IF f = "analyzer_result" THEN DataUrl(<<"e30K">>) ELSE DataUrl(<<"AAAA">>)

\* the other values a field takes: absent, empty, empty or blank after
\* stripping, characters outside the base64 alphabet, base64 without the
\* data-URL prefix, and for analyzer_result base64 of something else than
\* JSON and of another JSON value.  The audio fields share the handler of
\* visualization and take fewer values.
OffNominal(f) ==
    IF f = "analyzer_result"
    THEN {Undefined, DataUrl(<<>>), DataUrl(<<"!">>), DataUrl(<<"e30K", "!">>),
          DataUrl(<<"AAAA">>), DataUrl(<<"W10K">>)}
    ELSE IF f = "visualization"
    THEN {Undefined, <<>>, DataUrl(<<>>), DataUrl(<<" ">>), DataUrl(<<"!">>), <<"AAAA">>}
    ELSE {Undefined, DataUrl(<<>>), DataUrl(<<"!">>)}

TransportFailures == {"http_error", "network_error", "malformed_json"}

\* the places where a run departs from the nominal one
Anomalies ==
    UNION {{[kind |-> "value", at |-> f, v |-> x] : x \in OffNominal(f)} : f \in Fields}
      \cup {[kind |-> "write", at |-> p, v |-> <<>>] : p \in Paths}
      \cup {[kind |-> "unlink", at |-> FilePath(f), v |-> <<>>] : f \in BinaryFields}
      \cup {[kind |-> "transport", at |-> t, v |-> <<>>] : t \in TransportFailures}
      \cup {[kind |-> k, at |-> "", v |-> <<>>] : k \in {"mkdir", "no_output", "dir_exists"}}

RECURSIVE SubsetsUpTo(_, _)
SubsetsUpTo(S, n) ==
    IF n = 0 THEN {{}}
    ELSE LET smaller == SubsetsUpTo(S, n - 1)
         IN  smaller \cup {T \cup {x} : T \in {U \in smaller : Cardinality(U) = n - 1}, x \in S}

\* one value per field, one transport failure per request
Consistent(A) ==
    \A a, b \in A :
        (a.kind = b.kind /\ a.at = b.at) \/ (a.kind = "transport" /\ b.kind = "transport")
            => a = b

Environments == {A \in SubsetsUpTo(Anomalies, MaxAnomalies) : Consistent(A)}

BundleOf(A) ==
    [f \in Fields |->
        IF \E a \in A : a.kind = "value" /\ a.at = f
        THEN (CHOOSE a \in A : a.kind = "value" /\ a.at = f).v
        ELSE Nominal(f)]

FaultsOf(A) ==
    {<<a.kind, a.at>> : a \in {b \in A : b.kind \in {"write", "unlink", "mkdir"}}}

TransportOf(A) ==
    IF \E a \in A : a.kind = "transport"
    THEN (CHOOSE a \in A : a.kind = "transport").at
    ELSE "ok"

-----------------------------------------------------------------------------
(* The process: main, fetchMusicAnalysis, processAnalysisResults *)

\* the catalog order of processAnalysisResults
CatalogOrder == <<"analyzer_result", "visualization">> \o audioFileKeys

NoOutcomes == [partial |-> {}, retry |-> "ok"]

Init ==
    /\ \E A \in Environments :
        /\ transport = TransportOf(A)
        /\ hasOutput = ~(\E a \in A : a.kind = "no_output")
        /\ bundle = BundleOf(A)
        /\ faults = FaultsOf(A)
        /\ dirExisted = (\E a \in A : a.kind = "dir_exists")
    /\ dirExists = dirExisted
    /\ order = CatalogOrder
    /\ outcomes = NoOutcomes
    /\ pc = "fetch"
    /\ analysisData = "unset"
    /\ files = [p \in Paths |-> Absent]
    /\ log = <<>>
    /\ keyIdx = 1
    /\ exitCode = -1
    /\ sIn = Undefined
    /\ sOut = NotCalled

env == <<transport, hasOutput, bundle, faults, dirExisted, order, outcomes, sIn, sOut>>

\* mutant: without the return null on a non-ok status
FetchMusicAnalysisIgnoresStatus ==
    /\ pc = "fetch"
    /\ analysisData' = IF transport \in {"ok", "http_error"} THEN "data" ELSE "null"
    /\ pc' = "main"
    /\ UNCHANGED <<env, dirExists, files, log, keyIdx, exitCode>>

\* fetchMusicAnalysis: null on a non-ok status and on anything thrown in
\* the try block, the parsed body otherwise
FetchMusicAnalysis ==
    /\ pc = "fetch"
    /\ analysisData' = IF transport = "ok" THEN "data" ELSE "null"
    /\ pc' = "main"
    /\ UNCHANGED <<env, dirExists, files, log, keyIdx, exitCode>>

\* main: if (analysisData) processAnalysisResults(...) else log the failure
MainDispatch ==
    /\ pc = "main"
    /\ pc' = IF analysisData = "data" THEN "guard" ELSE "finished"
    /\ UNCHANGED <<env, analysisData, dirExists, files, log, keyIdx, exitCode>>

\* processAnalysisResults: the guard on apiResponse.output
MissingOutputGuard ==
    /\ pc = "guard"
    /\ pc' = IF hasOutput THEN "mkdir" ELSE "finished"
    /\ UNCHANGED <<env, analysisData, dirExists, files, log, keyIdx, exitCode>>

\* mutant: mkdir without recursive: true, which rejects on an existing directory
EnsureOutputDirNotRecursive ==
    /\ pc = "mkdir"
    /\ LET ok == <<"mkdir", "">> \notin faults /\ ~dirExists
       IN  /\ log' = Append(log, [op |-> "mkdir", path |-> "", ok |-> ok])
           /\ dirExists' = (dirExists \/ ok)
           /\ pc' = IF ok THEN "analyzer_result" ELSE "unhandled"
    /\ UNCHANGED <<env, analysisData, files, keyIdx, exitCode>>

\* await fs.mkdir(outputDir, { recursive: true }), outside any try block
EnsureOutputDir ==
    /\ pc = "mkdir"
    /\ LET ok == <<"mkdir", "">> \notin faults
       IN  /\ log' = Append(log, [op |-> "mkdir", path |-> "", ok |-> ok])
           /\ dirExists' = (dirExists \/ ok)
           /\ pc' = IF ok THEN "analyzer_result" ELSE "unhandled"
    /\ UNCHANGED <<env, analysisData, files, keyIdx, exitCode>>

ProcessAnalyzerResult ==
    /\ pc = "analyzer_result"
    /\ \E how \in WriteOutcomes(FilePath("analyzer_result")),
          how1 \in WriteOutcomes(errorFilePath),
          how2 \in RetryOutcomes(errorFilePath) :
         LET r == saveAnalyzerResult([files |-> files, log |-> log, ok |-> TRUE],
                                     bundle["analyzer_result"], how, how1, how2)
         IN  /\ files' = r.files
             /\ log' = r.log
             /\ pc' = IF r.threw THEN "unhandled" ELSE "visualization"
    /\ UNCHANGED <<env, analysisData, dirExists, keyIdx, exitCode>>

ProcessVisualization ==
    /\ pc = "visualization"
    /\ \E how \in WriteOutcomes(FilePath("visualization")) :
         LET r == saveBinaryField([files |-> files, log |-> log, ok |-> TRUE],
                                  "visualization", how)
         IN  /\ files' = r.files
             /\ log' = r.log
    /\ pc' = "audio"
    /\ UNCHANGED <<env, analysisData, dirExists, keyIdx, exitCode>>

\* one iteration of for (const key of audioFileKeys)
ProcessAudioKey ==
    /\ pc = "audio"
    /\ keyIdx <= Len(audioFileKeys)
    /\ \E how \in WriteOutcomes(FilePath(audioFileKeys[keyIdx])) :
         LET r == saveBinaryField([files |-> files, log |-> log, ok |-> TRUE],
                                  audioFileKeys[keyIdx], how)
         IN  /\ files' = r.files
             /\ log' = r.log
    /\ keyIdx' = keyIdx + 1
    /\ pc' = "audio"
    /\ UNCHANGED <<env, analysisData, dirExists, exitCode>>

\* the loop is over: processAnalysisResults returns
FinishProcessing ==
    /\ pc = "audio"
    /\ keyIdx > Len(audioFileKeys)
    /\ pc' = "finished"
    /\ UNCHANGED <<env, analysisData, dirExists, files, log, keyIdx, exitCode>>

\* main resolves: the process ends with exit code 0
MainFinished ==
    /\ pc = "finished"
    /\ pc' = "exit"
    /\ exitCode' = 0
    /\ UNCHANGED <<env, analysisData, dirExists, files, log, keyIdx>>

\* main().catch(...): process.exit(1)
MainCatch ==
    /\ pc = "unhandled"
    /\ pc' = "exit"
    /\ exitCode' = 1
    /\ UNCHANGED <<env, analysisData, dirExists, files, log, keyIdx>>

Next ==
    \/ FetchMusicAnalysis
    \/ MainDispatch
    \/ MissingOutputGuard
    \/ EnsureOutputDir
    \/ ProcessAnalyzerResult
    \/ ProcessVisualization
    \/ ProcessAudioKey
    \/ FinishProcessing
    \/ MainFinished
    \/ MainCatch

Spec == Init /\ [][Next]_vars

-----------------------------------------------------------------------------
(* The stripper alone: every argument up to MaxStrLen tokens *)

StripInputs == SeqsUpTo(StripAlphabet, MaxStrLen) \cup {Undefined, NonString}

InitStrip ==
    /\ sIn \in StripInputs
    /\ sOut = NotCalled
    /\ pc = "strip"
    /\ transport = "ok"
    /\ hasOutput = TRUE
    /\ bundle = [f \in Fields |-> Nominal(f)]
    /\ faults = {}
    /\ analysisData = "unset"
    /\ dirExisted = FALSE
    /\ dirExists = FALSE
    /\ files = [p \in Paths |-> Absent]
    /\ log = <<>>
    /\ keyIdx = 1
    /\ exitCode = -1
    /\ order = CatalogOrder
    /\ outcomes = NoOutcomes

CallStrip ==
    /\ pc = "strip"
    /\ sOut' = stripDataUrlPrefixAndGetBase64(sIn)
    /\ pc' = "stripped"
    /\ UNCHANGED <<transport, hasOutput, bundle, faults, analysisData, dirExists,
                   files, log, keyIdx, exitCode, dirExisted, order, outcomes, sIn>>

NextStrip == CallStrip

SpecStrip == InitStrip /\ [][NextStrip]_vars

-----------------------------------------------------------------------------
(* The fields processed in another order than the catalog's: the same      *)
(* handlers, applied to order[1], order[2], ...; the outcome of every       *)
(* failing write is fixed with the environment.                            *)

Rotate(seq, k) == [i \in 1..Len(seq) |-> seq[((i + k - 1) % Len(seq)) + 1]]

Orders == {Rotate(CatalogOrder, k) : k \in 0..(Len(CatalogOrder) - 1)}

\* the outcome of a write to path under the fixed outcomes
FixedOutcome(path) ==
    IF ~dirExists THEN "clean"
    ELSE IF <<"write", path>> \in faults
    THEN (IF path \in outcomes.partial THEN "partial" ELSE "clean")
    ELSE "ok"

FixedRetry(path) ==
    IF ~dirExists THEN "clean"
    ELSE IF <<"write", path>> \in faults THEN outcomes.retry
    ELSE "ok"

\* the handler of one field
saveField(st, f) ==
    IF f = "analyzer_result"
    THEN saveAnalyzerResult(st, bundle[f], FixedOutcome(FilePath(f)),
                            FixedOutcome(errorFilePath), FixedRetry(errorFilePath))
    ELSE LET r == saveBinaryField(st, f, FixedOutcome(FilePath(f)))
         IN  [files |-> r.files, log |-> r.log, threw |-> FALSE]

\* the handlers of ord[i], ord[i+1], ... applied in turn; a handler that
\* throws ends the pass
RECURSIVE RunInOrder(_, _, _)
RunInOrder(st, ord, i) ==
    IF i > Len(ord) \/ st.threw THEN st
    ELSE RunInOrder(saveField([files |-> st.files, log |-> st.log, ok |-> TRUE], ord[i]),
                    ord, i + 1)

InitAnyOrder ==
    /\ \E A \in Environments :
        /\ transport = TransportOf(A)
        /\ hasOutput = ~(\E a \in A : a.kind = "no_output")
        /\ bundle = BundleOf(A)
        /\ faults = FaultsOf(A)
        /\ dirExisted = (\E a \in A : a.kind = "dir_exists")
    /\ dirExists = dirExisted
    /\ order \in Orders
    /\ outcomes \in [partial : SUBSET {q \in Paths : <<"write", q>> \in faults},
                     retry : {"ok", "clean"}]
    /\ pc = "fetch"
    /\ analysisData = "unset"
    /\ files = [p \in Paths |-> Absent]
    /\ log = <<>>
    /\ keyIdx = 1
    /\ exitCode = -1
    /\ sIn = Undefined
    /\ sOut = NotCalled

EnsureOutputDirAnyOrder ==
    /\ pc = "mkdir"
    /\ LET ok == <<"mkdir", "">> \notin faults
       IN  /\ log' = Append(log, [op |-> "mkdir", path |-> "", ok |-> ok])
           /\ dirExists' = (dirExists \/ ok)
           /\ pc' = IF ok THEN "fields" ELSE "unhandled"
    /\ UNCHANGED <<env, analysisData, files, keyIdx, exitCode>>

ProcessFieldInOrder ==
    /\ pc = "fields"
    /\ keyIdx <= Len(order)
    /\ LET r == saveField([files |-> files, log |-> log, ok |-> TRUE], order[keyIdx])
       IN  /\ files' = r.files
           /\ log' = r.log
           /\ pc' = IF r.threw THEN "unhandled" ELSE "fields"
    /\ keyIdx' = keyIdx + 1
    /\ UNCHANGED <<env, analysisData, dirExists, exitCode>>

FinishAnyOrder ==
    /\ pc = "fields"
    /\ keyIdx > Len(order)
    /\ pc' = "finished"
    /\ UNCHANGED <<env, analysisData, dirExists, files, log, keyIdx, exitCode>>

NextAnyOrder ==
    \/ FetchMusicAnalysis
    \/ MainDispatch
    \/ MissingOutputGuard
    \/ EnsureOutputDirAnyOrder
    \/ ProcessFieldInOrder
    \/ FinishAnyOrder
    \/ MainFinished
    \/ MainCatch

SpecAnyOrder == InitAnyOrder /\ [][NextAnyOrder]_vars

-----------------------------------------------------------------------------
(* Vocabulary of the properties *)

\* a complete file is at path
Written(path) == files[path] \notin {Absent, Partial}

\* processAnalysisResults was called with a response that carries an output
PersistRan == analysisData = "data" /\ hasOutput

MkdirFails == <<"mkdir", "">> \in faults

WriteFails(path) == <<"write", path>> \in faults

\* the values from which a field's file is to be produced
ValidValues(f) ==
    IF f = "analyzer_result" THEN {DataUrl(<<"e30K">>), DataUrl(<<"W10K">>)}
    ELSE {DataUrl(<<"AAAA">>), <<"AAAA">>}

\* those of them that are data URLs
ValidDataUrls(f) == ValidValues(f) \ {<<"AAAA">>}

\* the JSON value a valid analyzer_result was encoded from
OriginalObject(v) ==
    IF v = DataUrl(<<"e30K">>) THEN "EmptyObject"
    ELSE IF v = DataUrl(<<"W10K">>) THEN "EmptyArray"
    ELSE "none"

\* undefined, empty, or empty after stripping the data-URL prefix
Skipped(v) == v \in {Undefined, <<>>, DataUrl(<<>>)}

\* analyzer_result values whose payload has characters outside the base64
\* alphabet, or decodes to something that is not JSON
RejectedAnalyzerValues == {DataUrl(<<"!">>), DataUrl(<<"e30K", "!">>), DataUrl(<<"AAAA">>)}

\* the output layout: the files of the catalog
ExpectedFiles ==
    {"analysis.json", "visualization.png",
     "demucs_bass.wav", "demucs_drums.wav", "demucs_guitar.wav", "demucs_other.wav",
     "demucs_piano.wav", "demucs_vocals.wav",
     "mdx_instrumental.wav", "mdx_other.wav", "mdx_vocals.wav",
     "sonification.mp3"}

LogAt(path) == {i \in 1..Len(log) : log[i].path = path}

EmptyDir == [files |-> [p \in Paths |-> Absent], log |-> <<>>, threw |-> FALSE]

-----------------------------------------------------------------------------
(* Properties *)

\* C1: processAnalysisResults never throws: whatever filesystem operation
\* fails, no exception leaves it.
C1_PersistNeverThrows == pc # "unhandled"

\* C2: per-field isolation: at the end of a run in which the directory could
\* be created, every field whose value is valid and whose own write does not
\* fail has its file written, whatever happens to the other fields.
C2_PerFieldIsolation ==
    (pc = "exit" /\ PersistRan /\ ~MkdirFails)
        => \A f \in Fields :
              (bundle[f] \in ValidValues(f) /\ ~WriteFails(FilePath(f)))
                  => Written(FilePath(f))

\* C3: when analyzer_result is present but is invalid base64 or fails to
\* decode or parse, the run writes the diagnostic file (if that write can
\* succeed) and not analysis.json, still writes every other valid artifact,
\* and never leaves both files.
C3_DiagnosticInsteadOfJson ==
    (pc = "exit" /\ PersistRan /\ ~MkdirFails
        /\ bundle["analyzer_result"] \in RejectedAnalyzerValues)
        => /\ ~WriteFails(errorFilePath) => Written(errorFilePath)
           /\ files[FilePath("analyzer_result")] = Absent
           /\ \A f \in BinaryFields :
                 (bundle[f] \in ValidValues(f) /\ ~WriteFails(FilePath(f)))
                     => Written(FilePath(f))
           /\ ~(Written(errorFilePath) /\ Written(FilePath("analyzer_result")))

\* the case of C4: every field a valid data URL, no filesystem failure, the
\* run over
AllValidRunOver ==
    /\ pc = "exit"
    /\ PersistRan
    /\ faults = {}
    /\ \A f \in Fields : bundle[f] \in ValidDataUrls(f)

\* C4 as stated: the all-valid run leaves exactly 11 files.
C4_ElevenFiles ==
    AllValidRunOver => Cardinality({p \in Paths : files[p] # Absent}) = 11

\* C4, amended: the all-valid run creates the directory and leaves exactly
\* the 12 files of the catalog, each non-empty, and analysis.json parses
\* back to the original object.
C4_TwelveFiles ==
    AllValidRunOver
        => /\ dirExists
           /\ exitCode = 0
           /\ {p \in Paths : files[p] # Absent} = ExpectedFiles
           /\ Cardinality(ExpectedFiles) = 12
           /\ \A p \in ExpectedFiles : Written(p) /\ files[p] # <<>>
           /\ JSONParse(files[FilePath("analyzer_result")])
                  = OriginalObject(bundle["analyzer_result"])

C4_Witness ==
    /\ AllValidRunOver
    /\ bundle["analyzer_result"] = DataUrl(<<"W10K">>)
    /\ files[FilePath("analyzer_result")] = <<"[]">>
    /\ Written(FilePath("sonification"))

\* C5: a field whose value is undefined, empty, or empty after stripping
\* gets no write and no delete at its destination and takes no error path;
\* when nothing else is wrong, the files at the end are those of the
\* all-valid run less the files of such fields.
C5_SkippedFieldUntouched ==
    /\ \A f \in Fields :
          Skipped(bundle[f])
              => /\ LogAt(FilePath(f)) = {}
                 /\ files[FilePath(f)] = Absent
                 /\ f = "analyzer_result"
                        => LogAt(errorFilePath) = {} /\ files[errorFilePath] = Absent
    /\ (pc = "unhandled" /\ Skipped(bundle["analyzer_result"]))
          => log[Len(log)].op = "mkdir"
    /\ (pc = "exit" /\ PersistRan /\ faults = {}
          /\ \A f \in Fields : Skipped(bundle[f]) \/ bundle[f] \in ValidDataUrls(f))
          => /\ exitCode = 0
             /\ {p \in Paths : files[p] # Absent}
                    = ExpectedFiles \ {FilePath(f) : f \in {g \in Fields : Skipped(bundle[g])}}

C5_Witness ==
    /\ pc = "exit"
    /\ exitCode = 0
    /\ faults = {}
    /\ bundle["demucs_piano"] = DataUrl(<<>>)
    /\ bundle["analyzer_result"] = Undefined
    /\ {p \in Paths : Written(p)}
           = ExpectedFiles \ {FilePath("demucs_piano"), FilePath("analyzer_result")}

\* C6: when the request fails or the response carries no output, no
\* directory is created, no file is written, no exception escapes, and the
\* exit code is not 1.
C6_NoOutputNoPersistence ==
    (transport # "ok" \/ ~hasOutput)
        => /\ log = <<>>
           /\ dirExists = dirExisted
           /\ \A p \in Paths : files[p] = Absent
           /\ pc # "unhandled"
           /\ exitCode # 1
           /\ (transport # "ok" /\ pc \notin {"fetch", "strip"}) => analysisData = "null"

C6_Witness ==
    /\ pc = "exit"
    /\ exitCode = 0
    /\ transport = "http_error"
    /\ ~dirExists

\* the result of strip as the contract states it
StripReference(v) ==
    IF v = Undefined \/ v = NonString \/ v = <<>> THEN Null
    ELSE LET c == IndexFrom(v, ",", 1)
         IN  IF c > 0 /\ \E i \in 1..(c - 2) : v[i] = ";" /\ v[i + 1] = "base64"
             THEN [j \in 1..(Len(v) - c) |-> v[c + j]]
             ELSE v

\* C7: strip returns null for an undefined, empty or non-string argument;
\* everything after the first comma when the segment before it contains
\* ';base64'; the argument otherwise.  For a data URL it returns the payload.
C7_StripMatchesReference ==
    pc = "stripped"
        => /\ sOut = StripReference(sIn)
           /\ \A payload \in SeqsUpTo(StripAlphabet \ {";", "base64"}, MaxStrLen - 4) :
                 sIn = DataUrl(payload) => sOut = payload

C7_Witness ==
    /\ pc = "stripped"
    /\ sIn = <<";", "base64", ",", ",", "AAAA">>
    /\ sOut = <<",", "AAAA">>

\* C8: the directory is created before anything is written: every write or
\* delete in the log comes after a successful mkdir, a file exists only in
\* an existing directory, and mkdir succeeds the same whether or not the
\* directory already existed.
C8_MkdirBeforeWrites ==
    /\ \A i \in 1..Len(log) :
          log[i].op \in {"writeFile", "unlink"}
              => i > 1 /\ log[1].op = "mkdir" /\ log[1].ok /\ dirExists
    /\ \A p \in Paths : files[p] # Absent => dirExists
    /\ Len(log) >= 1
          => /\ log[1].op = "mkdir"
             /\ log[1].ok = ~MkdirFails
             /\ log[1].ok => dirExists
             /\ ~log[1].ok => Len(log) = 1 /\ pc \in {"unhandled", "exit"}

C8_Witness ==
    /\ dirExisted
    /\ pc = "exit"
    /\ exitCode = 0
    /\ Len(log) > 1
    /\ log[1] = [op |-> "mkdir", path |-> "", ok |-> TRUE]
    /\ \A p \in ExpectedFiles : Written(p)

\* C9: after a failed write of a binary field the delete of its file is
\* attempted next; when the delete succeeds no file is left there; a failed
\* delete is swallowed: it raises nothing and the later fields are processed.
C9_CleanupAfterFailedWrite ==
    /\ \A i \in 1..Len(log) :
          (log[i].op = "writeFile" /\ ~log[i].ok /\ log[i].path \in ExpectedFiles
                /\ log[i].path # FilePath("analyzer_result"))
              => /\ i < Len(log)
                 /\ log[i + 1].op = "unlink"
                 /\ log[i + 1].path = log[i].path
                 /\ log[i + 1].ok => files[log[i].path] = Absent
    /\ (Len(log) > 0 /\ log[Len(log)].op = "unlink")
          => pc \in {"audio", "finished", "exit"} /\ exitCode # 1
    /\ (pc = "exit" /\ exitCode = 0 /\ PersistRan)
          => \A f \in BinaryFields :
                (bundle[f] \in ValidValues(f) /\ ~WriteFails(FilePath(f)))
                    => Written(FilePath(f))

C9_Witness ==
    /\ pc = "exit"
    /\ exitCode = 0
    /\ files[FilePath("visualization")] = Partial
    /\ \E i \in 1..Len(log) :
          log[i].op = "unlink" /\ ~log[i].ok /\ log[i].path = FilePath("visualization")
    /\ Written(FilePath("sonification"))

\* C10: no two fields, nor the diagnostic file, share a destination, and
\* with the outcomes of the writes fixed, the files at the end of a run that
\* processes the fields in any order are those of the run in catalog order.
C10_OrderInsensitive ==
    /\ \A f, g \in Fields : f # g => FilePath(f) # FilePath(g)
    /\ \A f \in Fields : FilePath(f) # errorFilePath
    /\ (pc = "exit" /\ PersistRan /\ ~MkdirFails)
          => files = RunInOrder(EmptyDir, CatalogOrder, 1).files

====
